---- MODULE Spec2Model ----
(***************************************************************************)
(* Model of the signal-extraction scripts scripts/spacy_extractor.py and   *)
(* scripts/nltk_extractor.py.                                              *)
(*                                                                         *)
(* A Python str is a sequence of one-character strings.  Positions keep    *)
(* Python's 0-based convention; At and Slice translate to TLA+ sequences.  *)
(***************************************************************************)
EXTENDS Integers, Sequences, FiniteSets, TLC

VARIABLES
    pc,            \* position of the modelled program
    entity,        \* process_entity: the argument
    repaired,      \* process_entity(entity)
    repaired2,     \* process_entity(process_entity(entity))
    script,        \* "spacy" (spacy_extractor.py) or "nltk" (nltk_extractor.py)
    args,          \* the parsed command line
    line,          \* the record being processed: [input_doc, summary]
    doc_ents,      \* main: doc_ents after post-processing
    summary_ents,  \* main: summary_ents after post-processing
    signal_acc,    \* main: zip(signal, signal_pos) before the sort
    signal_sorted, \* main: sorted(zip(signal, signal_pos), key=offset)
    new_signal,    \* main: the record's final signal
    input_file,    \* the file at --input_path
    output_file,   \* the file at --output_path
    output_before, \* the file at --output_path when the run started
    data,          \* main: the loaded records
    signals,       \* main: the output records accumulated so far
    idx,           \* main: number of records of data the loop has passed
    error          \* the exception that ended the run, "" while none

repairVars == <<entity, repaired, repaired2>>

recordVars == <<script, args, line, doc_ents, summary_ents, signal_acc,
                signal_sorted, new_signal>>

runVars == <<input_file, output_file, output_before, data, signals, idx, error>>

vars == <<pc, repairVars, recordVars, runVars>>

(***************************************************************************)
(* Bounds                                                                  *)
(***************************************************************************)
\* longest mention string enumerated for process_entity
MaxEntityLen == 4

\* longest document or summary text enumerated exhaustively
MaxTextLen == 2

\* most mentions the recognizer returns for one text
MaxMentions == 2

\* most lines of an input file
MaxRecords == 2

\* most mentions the recognizer returns for one text of a whole run
MaxRunMentions == 1

(***************************************************************************)
(* Python str primitives                                                   *)
(***************************************************************************)
\* the members of [A-Za-z] that occur in the modelled strings
UpperLetters == {"A", "U", "S", "G"}

LowerLetters == {"a", "u", "s", "g", "b", "o", "v", "e", "r", "n", "m", "t", "h", "y"}

\* regex class [A-Za-z]
IsLetter(c) == c \in UpperLetters \cup LowerLetters

\* regex class \s
IsSpace(c) == c \in {" ", "\t"}

\* str.lower() on one character
LowerChar(c) ==
    CASE c = "A" -> "a"
      [] c = "U" -> "u"
      [] c = "S" -> "s"
      [] c = "G" -> "g"
      [] OTHER -> c

\* str.lower()
Lower(s) == [i \in 1..Len(s) |-> LowerChar(s[i])]

\* s[i]
At(s, i) == s[i + 1]

\* s[a:b] for 0 <= a and b <= len(s); empty when a >= b
Slice(s, a, b) == SubSeq(s, a + 1, b)

\* all strings over alphabet of length at most n
StringsUpTo(alphabet, n) == UNION {[1..k -> alphabet] : k \in 0..n}

(***************************************************************************)
(* process_entity                                                          *)
(***************************************************************************)
\* end of the greedy \s* starting at i
RECURSIVE SkipSpaces(_, _)
SkipSpaces(s, i) ==
    IF i < Len(s) /\ IsSpace(At(s, i)) THEN SkipSpaces(s, i + 1) ELSE i

\* end (exclusive) of the match of \s*([A-Za-z])\.\s*([A-Za-z]) that starts
\* at i, or -1.  A letter is not whitespace, so each \s* can only succeed
\* having consumed its whole run of whitespace.
MatchEnd(s, i) ==
    LET j == SkipSpaces(s, i)
    IN  IF j + 1 < Len(s) /\ IsLetter(At(s, j)) /\ At(s, j + 1) = "."
        THEN LET k == SkipSpaces(s, j + 2)
             IN  IF k < Len(s) /\ IsLetter(At(s, k)) THEN k + 1 ELSE -1
        ELSE -1

\* [match.start() for match in re.finditer(pattern, s)], scanning from i:
\* leftmost non-overlapping matches
RECURSIVE MatchStarts(_, _)
MatchStarts(s, i) ==
    IF i >= Len(s) THEN <<>>
    ELSE IF MatchEnd(s, i) # -1
         THEN <<i>> \o MatchStarts(s, MatchEnd(s, i))
         ELSE MatchStarts(s, i + 1)

\* '. '.join(parts)
RECURSIVE JoinDotSpace(_)
JoinDotSpace(parts) ==
    IF Len(parts) = 0 THEN <<>>
    ELSE IF Len(parts) = 1 THEN parts[1]
    ELSE parts[1] \o <<".", " ">> \o JoinDotSpace(Tail(parts))

\* positions = [-1] + [x+1 for x in starts] + [len(entity)]
SplitPositions(s) ==
    LET starts == MatchStarts(s, 0)
    IN  <<-1>> \o [i \in 1..Len(starts) |-> starts[i] + 1] \o <<Len(s)>>

\* splitted_str: entity[positions[i-1]+1 : positions[i]] for i in 1..len-1
Fragments(s) ==
    LET positions == SplitPositions(s)
    IN  [i \in 1..(Len(positions) - 1) |->
            Slice(s, positions[i] + 1, positions[i + 1])]

process_entity(s) == JoinDotSpace(Fragments(s))

(***************************************************************************)
(* Python values held in records, and json.dumps / json.loads on them      *)
(***************************************************************************)
PyStr(s) == [t |-> "str", v |-> s]

PyList(items) == [t |-> "list", v |-> items]

\* a dict, as its (key, value) pairs in insertion order; keys are str
PyDict(pairs) == [t |-> "dict", v |-> pairs]

\* a list of str
PyStrList(strs) == PyList([i \in 1..Len(strs) |-> PyStr(strs[i])])

\* key in d
HasKey(d, key) == \E i \in 1..Len(d.v) : d.v[i][1] = key

\* d[key], for key in d
Lookup(d, key) == d.v[CHOOSE i \in 1..Len(d.v) : d.v[i][1] = key][2]

\* d[key] = val: a present key keeps its place
SetKey(pairs, key, val) ==
    IF \E i \in 1..Len(pairs) : pairs[i][1] = key
    THEN [i \in 1..Len(pairs) |-> IF pairs[i][1] = key THEN <<key, val>> ELSE pairs[i]]
    ELSE Append(pairs, <<key, val>>)

Quote == "\""

Backslash == "\\"

Newline == "\n"

\* the body of a JSON string literal: json.dumps escapes the quote, the
\* backslash and the control characters
RECURSIVE EscapeChars(_)
EscapeChars(s) ==
    IF Len(s) = 0 THEN <<>>
    ELSE (CASE s[1] = Quote -> <<Backslash, Quote>>
            [] s[1] = Backslash -> <<Backslash, Backslash>>
            [] s[1] = Newline -> <<Backslash, "n">>
            [] s[1] = "\t" -> <<Backslash, "t">>
            [] OTHER -> <<s[1]>>)
         \o EscapeChars(Tail(s))

\* json.dumps(value) with the default separators ", " and ": "
RECURSIVE Dumps(_)
Dumps(val) ==
    LET RECURSIVE Items(_)
        Items(items) ==
            IF Len(items) = 0 THEN <<>>
            ELSE Dumps(items[1])
                 \o (IF Len(items) > 1 THEN <<",", " ">> \o Items(Tail(items)) ELSE <<>>)
        RECURSIVE Pairs(_)
        Pairs(pairs) ==
            IF Len(pairs) = 0 THEN <<>>
            ELSE <<Quote>> \o EscapeChars(pairs[1][1]) \o <<Quote, ":", " ">>
                 \o Dumps(pairs[1][2])
                 \o (IF Len(pairs) > 1 THEN <<",", " ">> \o Pairs(Tail(pairs)) ELSE <<>>)
    IN  CASE val.t = "str" -> <<Quote>> \o EscapeChars(val.v) \o <<Quote>>
          [] val.t = "list" -> <<"[">> \o Items(val.v) \o <<"]">>
          [] val.t = "dict" -> <<"{">> \o Pairs(val.v) \o <<"}">>

\* JSON whitespace
IsJsonSpace(c) == c \in {" ", "\t", "\n", "\r"}

RECURSIVE SkipJsonSpace(_, _)
SkipJsonSpace(s, i) ==
    IF i < Len(s) /\ IsJsonSpace(At(s, i)) THEN SkipJsonSpace(s, i + 1) ELSE i

\* the result of a failed parse
ParseFail == [ok |-> FALSE, val |-> PyStr(<<>>), pos |-> 0]

ParseOk(val, pos) == [ok |-> TRUE, val |-> val, pos |-> pos]

\* the characters of a string literal whose opening quote precedes i,
\* collected in acc; pos is just after the closing quote.  An unescaped
\* control character, an unknown escape and a missing closing quote fail.
RECURSIVE ParseStringBody(_, _, _)
ParseStringBody(s, i, acc) ==
    IF i >= Len(s) THEN ParseFail
    ELSE LET c == At(s, i)
         IN  IF c = Quote THEN ParseOk(PyStr(acc), i + 1)
             ELSE IF c = Newline \/ c = "\t" \/ c = "\r" THEN ParseFail
             ELSE IF c = Backslash
                  THEN IF i + 1 >= Len(s) THEN ParseFail
                       ELSE LET e == At(s, i + 1)
                            IN  IF e = Quote \/ e = Backslash \/ e = "/"
                                THEN ParseStringBody(s, i + 2, Append(acc, e))
                                ELSE IF e = "n"
                                THEN ParseStringBody(s, i + 2, Append(acc, Newline))
                                ELSE IF e = "t"
                                THEN ParseStringBody(s, i + 2, Append(acc, "\t"))
                                ELSE ParseFail
             ELSE ParseStringBody(s, i + 1, Append(acc, c))

\* the JSON value that starts at i (after whitespace): a string, an array or
\* an object; numbers and literals do not occur in the modelled files
RECURSIVE ParseValue(_, _)
RECURSIVE ParseItems(_, _, _)
RECURSIVE ParsePairs(_, _, _)
ParseValue(s, i0) ==
    LET i == SkipJsonSpace(s, i0)
    IN  IF i >= Len(s) THEN ParseFail
        ELSE IF At(s, i) = Quote THEN ParseStringBody(s, i + 1, <<>>)
        ELSE IF At(s, i) = "["
             THEN LET j == SkipJsonSpace(s, i + 1)
                  IN  IF j < Len(s) /\ At(s, j) = "]" THEN ParseOk(PyList(<<>>), j + 1)
                      ELSE ParseItems(s, i + 1, <<>>)
        ELSE IF At(s, i) = "{"
             THEN LET j == SkipJsonSpace(s, i + 1)
                  IN  IF j < Len(s) /\ At(s, j) = "}" THEN ParseOk(PyDict(<<>>), j + 1)
                      ELSE ParsePairs(s, i + 1, <<>>)
        ELSE ParseFail

\* the items of an array from i on, after those in acc
ParseItems(s, i, acc) ==
    LET item == ParseValue(s, i)
    IN  IF ~item.ok THEN ParseFail
        ELSE LET j == SkipJsonSpace(s, item.pos)
             IN  IF j >= Len(s) THEN ParseFail
                 ELSE IF At(s, j) = "," THEN ParseItems(s, j + 1, Append(acc, item.val))
                 ELSE IF At(s, j) = "]" THEN ParseOk(PyList(Append(acc, item.val)), j + 1)
                 ELSE ParseFail

\* the members of an object from i on, after those in acc
ParsePairs(s, i0, acc) ==
    LET i == SkipJsonSpace(s, i0)
    IN  IF i >= Len(s) \/ At(s, i) # Quote THEN ParseFail
        ELSE LET key == ParseStringBody(s, i + 1, <<>>)
             IN  IF ~key.ok THEN ParseFail
                 ELSE LET c == SkipJsonSpace(s, key.pos)
                      IN  IF c >= Len(s) \/ At(s, c) # ":" THEN ParseFail
                          ELSE LET item == ParseValue(s, c + 1)
                               IN  IF ~item.ok THEN ParseFail
                                   ELSE LET j == SkipJsonSpace(s, item.pos)
                                            more == SetKey(acc, key.val.v, item.val)
                                        IN  IF j >= Len(s) THEN ParseFail
                                            ELSE IF At(s, j) = "," THEN ParsePairs(s, j + 1, more)
                                            ELSE IF At(s, j) = "}" THEN ParseOk(PyDict(more), j + 1)
                                            ELSE ParseFail

\* json.loads(text): one value, then only whitespace
Loads(text) ==
    LET r == ParseValue(text, 0)
    IN  IF r.ok /\ SkipJsonSpace(text, r.pos) = Len(text) THEN r ELSE ParseFail

(***************************************************************************)
(* Files: load_jsonl_file and write_jsonl_file                             *)
(***************************************************************************)
NoFile == [exists |-> FALSE, content |-> <<>>]

FileOf(chars) == [exists |-> TRUE, content |-> chars]

\* number of characters up to and including the first line end at or
\* after position i, or the length when there is none
RECURSIVE LineEnd(_, _)
LineEnd(content, i) ==
    IF i >= Len(content) THEN Len(content)
    ELSE IF At(content, i) = Newline THEN i + 1
    ELSE LineEnd(content, i + 1)

\* f.readlines(): the lines of the content, each with its line end
RECURSIVE ReadLines(_)
ReadLines(content) ==
    IF Len(content) = 0 THEN <<>>
    ELSE LET n == LineEnd(content, 0)
         IN  <<SubSeq(content, 1, n)>> \o ReadLines(SubSeq(content, n + 1, Len(content)))

\* line.strip()
RECURSIVE Strip(_)
Strip(s) ==
    IF Len(s) = 0 THEN s
    ELSE IF IsJsonSpace(s[1]) THEN Strip(Tail(s))
    ELSE IF IsJsonSpace(s[Len(s)]) THEN Strip(SubSeq(s, 1, Len(s) - 1))
    ELSE s

\* the loop of load_jsonl_file over the lines: ok is false when json.loads
\* raises on a line
RECURSIVE LoadLines(_, _)
LoadLines(lines, acc) ==
    IF Len(lines) = 0 THEN [ok |-> TRUE, data |-> acc]
    ELSE LET r == Loads(Strip(lines[1]))
         IN  IF r.ok THEN LoadLines(Tail(lines), Append(acc, r.val))
             ELSE [ok |-> FALSE, data |-> <<>>]

\* mutant of load_jsonl_file: a line that does not parse is skipped
LoadSkippingBadLines(file) ==
    LET RECURSIVE Go(_, _)
        Go(lines, acc) ==
            IF Len(lines) = 0 THEN [ok |-> TRUE, data |-> acc]
            ELSE LET r == Loads(Strip(lines[1]))
                 IN  Go(Tail(lines), IF r.ok THEN Append(acc, r.val) ELSE acc)
    IN  IF file.exists THEN Go(ReadLines(file.content), <<>>)
        ELSE [ok |-> FALSE, data |-> <<>>]

\* load_jsonl_file(filepath): open() raises when the file does not exist
load_jsonl_file(file) ==
    IF file.exists THEN LoadLines(ReadLines(file.content), <<>>)
    ELSE [ok |-> FALSE, data |-> <<>>]

\* the lines written for input_list: json.dumps(line) + '\n' each
RECURSIVE DumpLines(_)
DumpLines(input_list) ==
    IF Len(input_list) = 0 THEN <<>>
    ELSE Dumps(input_list[1]) \o <<Newline>> \o DumpLines(Tail(input_list))

\* mutant of write_jsonl_file: the file is never removed
WriteAlwaysAppending(file, input_list, overwrite) ==
    FileOf(file.content \o DumpLines(input_list))

\* write_jsonl_file(filepath, input_list, overwrite=overwrite) with the
\* default mode 'a+': os.remove under overwrite (a missing file is passed
\* over), then the lines are appended to what the file holds
write_jsonl_file(file, input_list, overwrite) ==
    LET before == IF overwrite THEN NoFile ELSE file
    IN  FileOf(before.content \o DumpLines(input_list))

(***************************************************************************)
(* Example mentions                                                        *)
(***************************************************************************)
Str_U_S_Government ==
    <<"U", ".", " ", "S", ".", " ", "G", "o", "v", "e", "r", "n", "m", "e", "n", "t">>

Str_US_Government ==
    <<"U", ".", "S", ".", " ", "G", "o", "v", "e", "r", "n", "m", "e", "n", "t">>

Str_U_S == <<"U", ".", " ", "S", ".">>

Str_US == <<"U", ".", "S", ".">>

Str_the_US_Army ==
    <<"t", "h", "e", " ", "U", ".", "S", ".", " ", "A", "r", "m", "y">>

RepairExamples == {Str_U_S_Government, Str_U_S, Str_US, Str_the_US_Army}

RepairAlphabet == {"A", "a", ".", " "}

RepairInputs == StringsUpTo(RepairAlphabet, MaxEntityLen) \cup RepairExamples

(***************************************************************************)
(* Specification of process_entity applied once and twice                  *)
(***************************************************************************)
\* the variables of the record computation, when no record is processed
RecordIdle ==
    /\ script = "spacy"
    /\ args = [lower |-> FALSE, double_check |-> FALSE, nouns_only |-> FALSE,
               type |-> "entity"]
    /\ line = [input_doc |-> <<>>, summary |-> <<>>]
    /\ doc_ents = <<>>
    /\ summary_ents = <<>>
    /\ signal_acc = <<>>
    /\ signal_sorted = <<>>
    /\ new_signal = <<>>

\* the variables of a run, when no run is modelled
RunIdle ==
    /\ input_file = NoFile
    /\ output_file = NoFile
    /\ output_before = NoFile
    /\ data = <<>>
    /\ signals = <<>>
    /\ idx = 0
    /\ error = ""

RepairIdle ==
    /\ entity = <<>>
    /\ repaired = <<>>
    /\ repaired2 = <<>>

InitRepair ==
    /\ pc = "repair"
    /\ entity \in RepairInputs
    /\ repaired = <<>>
    /\ repaired2 = <<>>
    /\ RecordIdle
    /\ RunIdle

Repair ==
    /\ pc = "repair"
    /\ repaired' = process_entity(entity)
    /\ pc' = "repaired"
    /\ UNCHANGED <<entity, repaired2, recordVars, runVars>>

RepairAgain ==
    /\ pc = "repaired"
    /\ repaired2' = process_entity(repaired)
    /\ pc' = "repaired_twice"
    /\ UNCHANGED <<entity, repaired, recordVars, runVars>>

NextRepair == Repair \/ RepairAgain

SpecRepair == InitRepair /\ [][NextRepair]_vars

\* the letters of s, in order
LettersOf(s) == SelectSeq(s, IsLetter)

\* C8: process_entity is idempotent
C8_Idempotent == pc = "repaired_twice" => repaired2 = repaired

\* C9: an over-split abbreviation is collapsed: "U. S. Government" yields
\* "U.S. Government" and "U. S." yields "U.S."
C9_CollapsesAbbreviation ==
    pc # "repair" =>
        /\ entity = Str_U_S_Government => repaired = Str_US_Government
        /\ entity = Str_U_S => repaired = Str_US

\* C10: the output has exactly the letters of the input, in order, and a
\* mention without a pattern match is returned unchanged
C10_LettersPreserved ==
    pc # "repair" =>
        /\ LettersOf(repaired) = LettersOf(entity)
        /\ MatchStarts(entity, 0) = <<>> => repaired = entity

(***************************************************************************)
(* The loop body of main: the signal of one record                         *)
(***************************************************************************)
\* x in lst
In(x, lst) == \E i \in 1..Len(lst) : lst[i] = x

\* a in b, for two str
IsSubstring(a, b) ==
    \E i \in 0..(Len(b) - Len(a)) : Slice(b, i, i + Len(a)) = a

\* text.index(x), for x in text
Index(text, x) ==
    CHOOSE i \in 0..(Len(text) - Len(x)) :
        /\ Slice(text, i, i + Len(x)) = x
        /\ \A j \in 0..(i - 1) : Slice(text, j, j + Len(x)) # x

\* the non-empty spans of a text
Spans(text) ==
    {Slice(text, i, j) : <<i, j>> \in {p \in (0..Len(text)) \X (0..Len(text)) : p[1] < p[2]}}

\* The recognizer (spaCy's doc.ents or doc.noun_chunks, optionally filtered
\* by filter_nouns; nltk's ne_chunk) is external: it may return any list of
\* spans of the text, in any order, with repetitions.  The set is closed
\* under taking sub-lists, so the filter_nouns pass adds no outcome.
MentionListsUpTo(text, n) == StringsUpTo(Spans(text), n)

MentionLists(text) == MentionListsUpTo(text, MaxMentions)

\* positions = [text.index(x) for x in entities]
Positions(text, entities) == [i \in 1..Len(entities) |-> Index(text, entities[i])]

\* list(map(process_entity, ents)), then [x.lower() for x in ents] under --lower
PostProcess(ents, lower) ==
    [i \in 1..Len(ents) |->
        IF lower THEN Lower(process_entity(ents[i])) ELSE process_entity(ents[i])]

\* the mentions of a list of (mention, offset) pairs
Names(pairs) == [i \in 1..Len(pairs) |-> pairs[i][1]]

\* first loop: summary mentions that occur verbatim among the document
\* mentions, with their summary offset
RECURSIVE ExactMatches(_, _, _)
ExactMatches(s_ents, s_pos, d_ents) ==
    IF Len(s_ents) = 0 THEN <<>>
    ELSE (IF In(s_ents[1], d_ents) THEN <<<<s_ents[1], s_pos[1]>>>> ELSE <<>>)
         \o ExactMatches(Tail(s_ents), Tail(s_pos), d_ents)

\* --double_check, first loop: document mentions found in the lowercased
\* summary text, offset by lowercase search
RECURSIVE DoubleCheckDoc(_, _, _)
DoubleCheckDoc(acc, d_ents, summary) ==
    IF Len(d_ents) = 0 THEN acc
    ELSE LET e == d_ents[1]
             hit == ~In(e, Names(acc)) /\ IsSubstring(Lower(e), Lower(summary))
         IN  DoubleCheckDoc(
                 IF hit THEN Append(acc, <<e, Index(Lower(summary), Lower(e))>>) ELSE acc,
                 Tail(d_ents), summary)

\* --double_check, second loop: summary mentions found in the lowercased
\* document text, with their summary offset
RECURSIVE DoubleCheckSummary(_, _, _, _)
DoubleCheckSummary(acc, s_ents, s_pos, doc) ==
    IF Len(s_ents) = 0 THEN acc
    ELSE LET e == s_ents[1]
             hit == ~In(e, Names(acc)) /\ IsSubstring(Lower(e), Lower(doc))
         IN  DoubleCheckSummary(
                 IF hit THEN Append(acc, <<e, s_pos[1]>>) ELSE acc,
                 Tail(s_ents), Tail(s_pos), doc)

\* mutant of Accumulate: the double-check loops run whatever the flag
AccumulateAlwaysDoubleCheck(ln, d_ents, s_ents, s_pos, a) ==
    DoubleCheckSummary(
        DoubleCheckDoc(ExactMatches(s_ents, s_pos, d_ents), d_ents, ln.summary),
        s_ents, s_pos, ln.input_doc)

\* signal and signal_pos, zipped, as accumulated before the sort
Accumulate(ln, d_ents, s_ents, s_pos, a) ==
    LET step1 == ExactMatches(s_ents, s_pos, d_ents)
    IN  IF a.double_check
        THEN DoubleCheckSummary(DoubleCheckDoc(step1, d_ents, ln.summary),
                                s_ents, s_pos, ln.input_doc)
        ELSE step1

\* mutant of InsertByOffset: p goes before the pairs of equal offset
RECURSIVE InsertBeforeEqual(_, _)
InsertBeforeEqual(sorted, p) ==
    IF Len(sorted) = 0 THEN <<p>>
    ELSE IF sorted[1][2] < p[2]
         THEN <<sorted[1]>> \o InsertBeforeEqual(Tail(sorted), p)
         ELSE <<p>> \o sorted

\* insertion of p into a list sorted by offset, after every pair whose
\* offset is not greater (sorted() is stable)
RECURSIVE InsertByOffset(_, _)
InsertByOffset(sorted, p) ==
    IF Len(sorted) = 0 THEN <<p>>
    ELSE IF sorted[1][2] <= p[2]
         THEN <<sorted[1]>> \o InsertByOffset(Tail(sorted), p)
         ELSE <<p>> \o sorted

\* sorted(zip(signal, signal_pos), key=lambda x: x[1])
RECURSIVE SortByOffset(_)
SortByOffset(pairs) ==
    IF Len(pairs) = 0 THEN <<>>
    ELSE InsertByOffset(SortByOffset(SubSeq(pairs, 1, Len(pairs) - 1)),
                        pairs[Len(pairs)])

\* any([ent in x for x in signal if ent != x])
Subsumed(ent, signal) ==
    \E i \in 1..Len(signal) : signal[i] # ent /\ IsSubstring(ent, signal[i])

\* the loop that builds new_signal: kept starts empty, rest is what is left
\* of signal, signal is the whole sorted list
RECURSIVE DedupFrom(_, _, _)
DedupFrom(kept, rest, signal) ==
    IF Len(rest) = 0 THEN kept
    ELSE DedupFrom(
             IF ~In(rest[1], kept) /\ ~Subsumed(rest[1], signal)
             THEN Append(kept, rest[1]) ELSE kept,
             Tail(rest), signal)

\* mutant of Dedup: a mention is compared with the kept mentions only
DedupAgainstKept(signal) ==
    LET RECURSIVE Go(_, _)
        Go(kept, rest) ==
            IF Len(rest) = 0 THEN kept
            ELSE Go(IF ~In(rest[1], kept) /\ ~Subsumed(rest[1], kept)
                    THEN Append(kept, rest[1]) ELSE kept,
                    Tail(rest))
    IN  Go(<<>>, signal)

Dedup(signal) == DedupFrom(<<>>, signal, signal)

\* mutant of SetIntersectionLists: the document mentions that are summary
\* mentions, repetitions kept
FilterDocMentions(d_ents, s_ents) == {SelectSeq(d_ents, LAMBDA x : In(x, s_ents))}

\* list(set(doc_ents).intersection(set(summary_ents))): the elements of the
\* intersection in an order the program does not control
SetIntersectionLists(d_ents, s_ents) ==
    LET both == {d_ents[i] : i \in 1..Len(d_ents)} \cap {s_ents[i] : i \in 1..Len(s_ents)}
    IN  {l \in [1..Cardinality(both) -> both] : \A x \in both : In(x, l)}

SignalAlphabet == {"A", "a", "."}

\* texts with an abbreviation, which process_entity rewrites
AbbreviationTexts == {<<"A", ".", "a">>, <<"a", ".", "a">>}

Texts == StringsUpTo(SignalAlphabet, MaxTextLen) \cup AbbreviationTexts

Flags == [lower : BOOLEAN, double_check : BOOLEAN, nouns_only : {FALSE},
          type : {"entity"}]

InitSignal ==
    /\ pc = "record"
    /\ script \in {"spacy", "nltk"}
    /\ args \in IF script = "spacy" THEN Flags
                ELSE {[lower |-> FALSE, double_check |-> FALSE,
                       nouns_only |-> FALSE, type |-> "entity"]}
    /\ line \in [input_doc : Texts, summary : Texts]
    /\ doc_ents = <<>>
    /\ summary_ents = <<>>
    /\ signal_acc = <<>>
    /\ signal_sorted = <<>>
    /\ new_signal = <<>>
    /\ RepairIdle
    /\ RunIdle

\* the body of the loop of spacy_extractor.main for one record, given what
\* the recognizer returned for its two texts
SpacyBody(ln, d_raw, s_raw, a) ==
    LET s_pos == Positions(ln.summary, s_raw)
        d == PostProcess(d_raw, a.lower)
        s == PostProcess(s_raw, a.lower)
        acc == Accumulate(ln, d, s, s_pos, a)
        srt == SortByOffset(acc)
    IN  [doc_ents |-> d, summary_ents |-> s, signal_acc |-> acc,
         signal_sorted |-> srt, new_signal |-> Dedup(Names(srt))]

\* spacy_extractor.main, one iteration of the loop over data
SpacyRecord ==
    /\ pc = "record"
    /\ script = "spacy"
    /\ \E d_raw \in MentionLists(line.input_doc), s_raw \in MentionLists(line.summary) :
        LET body == SpacyBody(line, d_raw, s_raw, args)
        IN  /\ doc_ents' = body.doc_ents
            /\ summary_ents' = body.summary_ents
            /\ signal_acc' = body.signal_acc
            /\ signal_sorted' = body.signal_sorted
            /\ new_signal' = body.new_signal
    /\ pc' = "recorded"
    /\ UNCHANGED <<script, args, line, repairVars, runVars>>

\* nltk_extractor.main, one iteration of the loop over data
NltkRecord ==
    /\ pc = "record"
    /\ script = "nltk"
    /\ \E d \in MentionLists(line.input_doc), s \in MentionLists(line.summary) :
        /\ doc_ents' = d
        /\ summary_ents' = s
        /\ new_signal' \in SetIntersectionLists(d, s)
    /\ pc' = "recorded"
    /\ UNCHANGED <<script, args, line, signal_acc, signal_sorted, repairVars, runVars>>

NextSignal == SpacyRecord \/ NltkRecord

SpecSignal == InitSignal /\ [][NextSignal]_vars

\* the elements of a list
Elems(lst) == {lst[i] : i \in 1..Len(lst)}

\* the pairs of a list with a given offset, in order
WithOffset(pairs, o) == SelectSeq(pairs, LAMBDA p : p[2] = o)

\* index in signal_sorted of the first pair that carries mention e
FirstAt(e) == CHOOSE i \in 1..Len(signal_sorted) :
    /\ signal_sorted[i][1] = e
    /\ \A j \in 1..(i - 1) : signal_sorted[j][1] # e

SpacyRecorded == pc = "recorded" /\ script = "spacy"

NltkRecorded == pc = "recorded" /\ script = "nltk"

\* C1: the final signal of the position-aware policy has no duplicates and
\* no two distinct entries of which one is a substring of the other
C1_NoSubsumption ==
    SpacyRecorded =>
        \A i, j \in 1..Len(new_signal) :
            i # j => /\ new_signal[i] # new_signal[j]
                     /\ ~IsSubstring(new_signal[i], new_signal[j])

\* C1 witness: two mentions were retained and a third, a substring of one
\* of them, was dropped
C1_Witness ==
    /\ SpacyRecorded
    /\ Len(new_signal) >= 2
    /\ \E i \in 1..Len(signal_sorted) :
          Subsumed(signal_sorted[i][1], Names(signal_sorted))

\* C2: the sorted list has non-decreasing offsets and keeps the insertion
\* order of pairs with equal offsets; the final signal is a subsequence of
\* it that keeps the earliest occurrence of each mention, so its recorded
\* offsets are non-decreasing
C2_OrderedByOffset ==
    SpacyRecorded =>
        /\ \A i, j \in 1..Len(signal_sorted) :
              i < j => signal_sorted[i][2] <= signal_sorted[j][2]
        /\ Len(signal_sorted) = Len(signal_acc)
        /\ \A k \in 1..Len(signal_acc) :
              WithOffset(signal_sorted, signal_acc[k][2])
                  = WithOffset(signal_acc, signal_acc[k][2])
        /\ \A k \in 1..Len(new_signal) : In(new_signal[k], Names(signal_sorted))
        /\ \A k, l \in 1..Len(new_signal) :
              k < l => /\ FirstAt(new_signal[k]) < FirstAt(new_signal[l])
                       /\ signal_sorted[FirstAt(new_signal[k])][2]
                              <= signal_sorted[FirstAt(new_signal[l])][2]

\* C2 witness: the sort moved a pair, two different mentions share an
\* offset, and two mentions were retained
C2_Witness ==
    /\ SpacyRecorded
    /\ signal_sorted # signal_acc
    /\ \E i, j \in 1..Len(signal_sorted) :
          /\ i < j
          /\ signal_sorted[i][2] = signal_sorted[j][2]
          /\ signal_sorted[i][1] # signal_sorted[j][1]
    /\ Len(new_signal) >= 2

\* C3: the signal of the set-intersection policy is, as a set, the
\* intersection of the two mention lists, and has no duplicate entry
C3_SetIntersection ==
    NltkRecorded =>
        /\ Elems(new_signal) = Elems(doc_ents) \cap Elems(summary_ents)
        /\ \A i, j \in 1..Len(new_signal) : i # j => new_signal[i] # new_signal[j]

\* C3 witness: a shared mention is repeated in the document list, the two
\* lists differ, and a document mention is left out of the signal
C3_Witness ==
    /\ NltkRecorded
    /\ Len(doc_ents) = 2 /\ doc_ents[1] = doc_ents[2]
    /\ In(doc_ents[1], summary_ents)
    /\ Len(summary_ents) = 2 /\ summary_ents[1] # summary_ents[2]
    /\ Len(new_signal) = 1

\* C5 as stated: a record with an empty mention list has an empty signal,
\* in both scripts and for every setting of --double_check
C5_EmptyListEmptySignal ==
    (pc = "recorded" /\ (doc_ents = <<>> \/ summary_ents = <<>>))
        => new_signal = <<>>

\* C5 amended: an empty mention list gives an empty signal in nltk_extractor,
\* in spacy_extractor without --double_check, and with --double_check when
\* both lists are empty; with --double_check and one list empty the signal
\* holds only mentions of the other list whose lowercase form occurs in the
\* lowercased text that yielded no mention
C5_EmptyListAmended ==
    (pc = "recorded" /\ (doc_ents = <<>> \/ summary_ents = <<>>)) =>
        /\ (script = "nltk" \/ ~args.double_check
                \/ (doc_ents = <<>> /\ summary_ents = <<>>))
              => new_signal = <<>>
        /\ \A k \in 1..Len(new_signal) :
              \/ /\ summary_ents = <<>>
                 /\ In(new_signal[k], doc_ents)
                 /\ IsSubstring(Lower(new_signal[k]), Lower(line.summary))
              \/ /\ doc_ents = <<>>
                 /\ In(new_signal[k], summary_ents)
                 /\ IsSubstring(Lower(new_signal[k]), Lower(line.input_doc))

\* C5 witness: without --double_check the summary yields no mention while a
\* document mention occurs, lowercased, in the summary text
C5_Witness ==
    /\ SpacyRecorded
    /\ ~args.double_check
    /\ summary_ents = <<>>
    /\ \E i \in 1..Len(doc_ents) : IsSubstring(Lower(doc_ents[i]), Lower(line.summary))
    /\ new_signal = <<>>

(***************************************************************************)
(* A whole run of spacy_extractor.main                                     *)
(***************************************************************************)
K_input_doc == <<"i", "n", "p", "u", "t", "_", "d", "o", "c">>

K_summary == <<"s", "u", "m", "m", "a", "r", "y">>

K_doc_named_entities ==
    <<"d", "o", "c", "_", "n", "a", "m", "e", "d", "_", "e", "n", "t", "i", "t", "i", "e", "s">>

K_summary_named_entities ==
    K_summary \o <<"_", "n", "a", "m", "e", "d", "_", "e", "n", "t", "i", "t", "i", "e", "s">>

K_signal == <<"s", "i", "g", "n", "a", "l">>

\* the values of --type that extract_entities accepts
ValidTypes == {"entity", "noun_phrase"}

\* the dict appended to signals
OutputRecord(body) ==
    PyDict(<< <<K_doc_named_entities, PyStrList(body.doc_ents)>>,
              <<K_summary_named_entities, PyStrList(body.summary_ents)>>,
              <<K_signal, PyStrList(body.new_signal)>> >>)

\* the exception the loop body raises on record rec, "" when it raises none:
\* line['input_doc'] is evaluated first, then extract_entities runs the
\* pipeline on it and tests args.type, then the same for line['summary']
RecordException(rec, a) ==
    IF rec.t # "dict" THEN "TypeError"
    ELSE IF ~HasKey(rec, K_input_doc) THEN "KeyError"
    ELSE IF Lookup(rec, K_input_doc).t # "str" THEN "TypeError"
    ELSE IF a.type \notin ValidTypes THEN "ValueError"
    ELSE IF ~HasKey(rec, K_summary) THEN "KeyError"
    ELSE IF Lookup(rec, K_summary).t # "str" THEN "TypeError"
    ELSE ""

\* the two texts of a record that has them
LineOf(rec) ==
    [input_doc |-> Lookup(rec, K_input_doc).v, summary |-> Lookup(rec, K_summary).v]

\* the output records the loop body can append for rec, over what the
\* recognizer may return
PossibleRecords(rec, a) ==
    {OutputRecord(SpacyBody(LineOf(rec), d_raw, s_raw, a)) :
        <<d_raw, s_raw>> \in MentionListsUpTo(LineOf(rec).input_doc, MaxRunMentions)
                             \X MentionListsUpTo(LineOf(rec).summary, MaxRunMentions)}

RunTexts == {<<"a">>, <<"A", Quote>>}

InputRecord(doc, summary) ==
    PyDict(<< <<K_input_doc, PyStr(doc)>>, <<K_summary, PyStr(summary)>> >>)

WellFormedLines == {Dumps(InputRecord(d, s)) : <<d, s>> \in RunTexts \X RunTexts}

\* a line cut short, which is not JSON
TruncatedLine == <<"{", Quote>> \o K_input_doc \o <<Quote, ":", " ", Quote, "a", Quote>>

\* records without a summary and without a document
NoSummaryLine == Dumps(PyDict(<< <<K_input_doc, PyStr(<<"a">>)>> >>))

NoDocumentLine == Dumps(PyDict(<< <<K_summary, PyStr(<<"a">>)>> >>))

MalformedLines == {TruncatedLine, NoSummaryLine, NoDocumentLine}

RECURSIVE JoinLines(_)
JoinLines(lines) ==
    IF Len(lines) = 0 THEN <<>>
    ELSE lines[1] \o <<Newline>> \o JoinLines(Tail(lines))

InputFiles ==
    {FileOf(JoinLines(lines)) :
        lines \in StringsUpTo(WellFormedLines \cup MalformedLines, MaxRecords)}

\* what an earlier run left at --output_path
EarlierOutput ==
    write_jsonl_file(NoFile,
        <<OutputRecord([doc_ents |-> << <<"a">> >>, summary_ents |-> << <<"a">> >>,
                        new_signal |-> << <<"a">> >>])>>,
        TRUE)

\* --nouns_only only narrows what the recognizer returns, which
\* MentionListsUpTo already leaves open, so one setting stands for both
RunArgs == [lower : BOOLEAN, double_check : BOOLEAN, nouns_only : {FALSE},
            type : ValidTypes \cup {"event"}]

\* the locals of the loop body are not tracked during a whole run
BodyIdle ==
    /\ script = "spacy"
    /\ line = [input_doc |-> <<>>, summary |-> <<>>]
    /\ doc_ents = <<>>
    /\ summary_ents = <<>>
    /\ signal_acc = <<>>
    /\ signal_sorted = <<>>
    /\ new_signal = <<>>

Init ==
    /\ pc = "start"
    /\ args \in RunArgs
    /\ input_file \in InputFiles
    /\ output_file \in {NoFile, EarlierOutput}
    /\ output_before = output_file
    /\ data = <<>>
    /\ signals = <<>>
    /\ idx = 0
    /\ error = ""
    /\ BodyIdle
    /\ RepairIdle

\* data = load_jsonl_file(args.input_path)
Load ==
    /\ pc = "start"
    /\ LET r == load_jsonl_file(input_file)
       IN  IF r.ok
           THEN /\ data' = r.data
                /\ pc' = "loop"
                /\ error' = ""
           ELSE /\ data' = data
                /\ pc' = "error"
                /\ error' = "JSONDecodeError"
    /\ UNCHANGED <<input_file, output_file, output_before, signals, idx,
                   repairVars, recordVars>>

\* one iteration of the loop over data that appends to signals
ProcessRecord ==
    /\ pc = "loop"
    /\ idx < Len(data)
    /\ RecordException(data[idx + 1], args) = ""
    /\ \E rec \in PossibleRecords(data[idx + 1], args) :
          signals' = Append(signals, rec)
    /\ idx' = idx + 1
    /\ UNCHANGED <<pc, input_file, output_file, output_before, data, error,
                   repairVars, recordVars>>

\* one iteration of the loop over data that raises
RecordError ==
    /\ pc = "loop"
    /\ idx < Len(data)
    /\ RecordException(data[idx + 1], args) # ""
    /\ error' = RecordException(data[idx + 1], args)
    /\ pc' = "error"
    /\ UNCHANGED <<input_file, output_file, output_before, data, signals, idx,
                   repairVars, recordVars>>

\* write_jsonl_file(args.output_path, signals, overwrite=True), after the loop
WriteOutput ==
    /\ pc = "loop"
    /\ idx = Len(data)
    /\ output_file' = write_jsonl_file(output_file, signals, TRUE)
    /\ pc' = "done"
    /\ UNCHANGED <<input_file, output_before, data, signals, idx, error,
                   repairVars, recordVars>>

\* a further call write_jsonl_file(output_path, signals), with the default
\* overwrite=False, on the file the run left
AppendCall ==
    /\ pc = "done"
    /\ output_file' = write_jsonl_file(output_file, signals, FALSE)
    /\ pc' = "appended"
    /\ UNCHANGED <<input_file, output_before, data, signals, idx, error,
                   repairVars, recordVars>>

Next == Load \/ ProcessRecord \/ RecordError \/ WriteOutput \/ AppendCall

Spec == Init /\ [][Next]_vars

\* the lines of the input file, stripped
InputLines ==
    LET lines == ReadLines(input_file.content)
    IN  [k \in 1..Len(lines) |-> Strip(lines[k])]

C6_InvalidTypeIsFatal ==
    args.type \notin ValidTypes =>
        /\ pc \notin {"done", "appended"}
        /\ output_file = output_before

\* position of the first malformed line among lines, 0 when there is none
RECURSIVE FirstMalformed(_, _)
FirstMalformed(lines, k) ==
    IF k > Len(lines) THEN 0
    ELSE IF lines[k] \in MalformedLines THEN k
    ELSE FirstMalformed(lines, k + 1)

\* C7: with a malformed line anywhere in the input the run never reaches the
\* write, the loop never passes the malformed record nor skips one, and the
\* output file stays as it was before the run
C7_MalformedAborts ==
    pc # "start" =>
        LET bad == FirstMalformed(InputLines, 1)
        IN  bad # 0 =>
               /\ pc \in {"loop", "error"}
               /\ output_file = output_before
               /\ idx = Len(signals)
               /\ idx < bad
               /\ pc = "error" => error \in {"JSONDecodeError", "KeyError", "ValueError"}

\* C7 witness: the second record lacks a field, the first was processed,
\* and the run ended with the KeyError beside an earlier run's output
C7_Witness ==
    /\ pc = "error"
    /\ error = "KeyError"
    /\ idx = 1
    /\ Len(signals) = 1
    /\ output_before = EarlierOutput
    /\ output_file = EarlierOutput
====
